---------------------------- MODULE Spec2Model ----------------------------
(***************************************************************************)
(* The books data-access layer of src/queries.js: fourteen async wrappers  *)
(* around the document store's find / updateOne / deleteOne / aggregate /  *)
(* createIndex primitives, each inside try { ... } catch (err) {           *)
(* console.error(...); throw err }.                                        *)
(*                                                                         *)
(* The store is the state: the `books` collection in natural order and the *)
(* set of its indexes.  One action per exported function; an action is one *)
(* whole invocation (argument checks, the store request, the catch block). *)
(* The store's reply is an input of the action: it answers, or it fails    *)
(* with one of StoreErrors.  Prices are integers (cents) or NaN.           *)
(***************************************************************************)
EXTENDS Integers, Sequences, FiniteSets

VARIABLES books,      \* the collection, in the store's natural order
          indexes,    \* names of the indexes of the collection
          pre,        \* [books, indexes] as they were when the last call began
          op,         \* the function invoked last ("none" before any call)
          args,       \* its arguments
          storeCalls, \* the store requests that invocation issued, in order
          fault,      \* what the store answered: "none" or the error it raised
          result,     \* the value the invocation returned ([kind |-> "none"] if it threw)
          err,        \* the value the invocation threw ("none" if it returned)
          log         \* what the invocation wrote with console.error

vars == <<books, indexes, pre, op, args, storeCalls, fault, result, err, log>>

---------------------------------------------------------------------------
(* Bounds of the model *)

\* longest seeded collection of Spec (all fourteen operations)
MaxBooks == 2
\* longest seeded collection of SpecWrite (updatePrice, deleteBook)
MaxWriteBooks == 3
\* longest seeded collection of SpecPage (paginateBooks, deleteBook)
MaxPageBooks == 10
\* largest page number requested
MaxPage == 3
\* longest seeded collection of SpecAgg (the three aggregations)
MaxAggBooks == 3

---------------------------------------------------------------------------
(* JavaScript values that reach the argument checks *)

Num(n) == [kind |-> "number", v |-> n]
NaN == [kind |-> "NaN", v |-> 0]
\* a string whose text is the numeral n, e.g. "5"
Str(n) == [kind |-> "string", v |-> n]
Undefined == [kind |-> "undefined", v |-> 0]

\* typeof x
TypeOf(x) == IF x.kind \in {"number", "NaN"} THEN "number" ELSE x.kind

\* x < n for an integer literal n: false for NaN and undefined (ToNumber gives
\* NaN), numeric comparison for numbers and numeric strings
LessThan(x, n) == x.kind \in {"number", "string"} /\ x.v < n

---------------------------------------------------------------------------
(* The catalogue *)

Book(t, a, g, y, p, s) ==
  [title |-> t, author |-> a, genre |-> g, published_year |-> y,
   price |-> p, in_stock |-> s]

\* the genres of the model in the store's (binary) string order
Collation == <<"Adventure", "Fiction", "Sci-Fi">>

\* sequences over S of length at most n
SeqsUpTo(S, n) == UNION {[1..k -> S] : k \in 0..n}

\* seeded records of Spec
Seed ==
  { Book("1984", "George Orwell", "Fiction", 1949, Num(1399), TRUE),
    Book("Moby Dick", "Herman Melville", "Adventure", 1851, Num(0), FALSE) }

\* seeded records of SpecWrite: two records share the title "1984"
WriteSeed ==
  { Book("1984", "George Orwell", "Fiction", 1949, Num(1399), TRUE),
    Book("1984", "Frank Herbert", "Sci-Fi", 1984, Num(0), FALSE),
    Book("Moby Dick", "Herman Melville", "Adventure", 1851, Num(1399), TRUE) }

\* seeded records of SpecPage: told apart by title only
PageSeed ==
  { Book(t, "George Orwell", "Fiction", 1949, Num(1399), TRUE) :
      t \in {"1984", "Moby Dick"} }

\* seeded records of SpecAgg: 1984 and 1989 share a decade, George Orwell wrote
\* two of the three books, two of them are Fiction, and a price may be NaN
AggSeed ==
  { Book("Dune", k[1], k[2], k[3], p, TRUE) :
      k \in { <<"George Orwell", "Fiction", 1984>>,
              <<"George Orwell", "Sci-Fi", 1991>>,
              <<"Frank Herbert", "Fiction", 1989>> },
      p \in {Num(0), Num(1399), NaN} }

\* the arguments the callers pass
TitleArgs == {"1984", "Moby Dick", "Dune"}
GenreArgs == {"Fiction", "Adventure"}
AuthorArgs == {"George Orwell", "Herman Melville"}
YearArgs == {1900, 1948}
PriceArgs == {Num(-1), Num(0), Num(1399), NaN, Str(5), Undefined}
PageArgs == {Undefined} \cup {Num(n) : n \in -1..MaxPage}

NoArgs ==
  [title |-> "", genre |-> "", author |-> "", year |-> 0,
   newPrice |-> Undefined, page |-> Undefined]

---------------------------------------------------------------------------
(* The store's primitives *)

\* what the store answers to a request: "none" for no error, or the error
Replies == {"none", "MongoNetworkError", "MongoServerError"}
StoreErrors == Replies \ {"none"}

\* projection { f: 1, ..., _id: 0 }
Project(doc, fields) == [f \in fields |-> doc[f]]
ProjectAll(docs, fields) == [i \in DOMAIN docs |-> Project(docs[i], fields)]

RECURSIVE FirstMatch(_, _, _)
\* position of the first document with this title, 0 if there is none
FirstMatch(coll, title, i) ==
  IF i > Len(coll) THEN 0
  ELSE IF coll[i].title = title THEN i
  ELSE FirstMatch(coll, title, i + 1)

\* updateOne({ title }, { $set: { price } }): the collection afterwards
UpdateOne(coll, title, price) ==
  LET i == FirstMatch(coll, title, 1)
  IN IF i = 0 THEN coll ELSE [coll EXCEPT ![i].price = price]

\* ... and its acknowledgement
UpdateResult(coll, title, price) ==
  LET i == FirstMatch(coll, title, 1)
  IN [matchedCount |-> IF i = 0 THEN 0 ELSE 1,
      modifiedCount |-> IF i = 0 \/ coll[i].price = price THEN 0 ELSE 1]

RemoveAt(coll, i) == SubSeq(coll, 1, i - 1) \o SubSeq(coll, i + 1, Len(coll))

\* mutant of DeleteOne: deleteMany, every document with the title goes
DeleteOneAsDeleteMany(coll, title) == SelectSeq(coll, LAMBDA d : d.title # title)

\* deleteOne({ title }): the collection afterwards
DeleteOne(coll, title) ==
  LET i == FirstMatch(coll, title, 1)
  IN IF i = 0 THEN coll ELSE RemoveAt(coll, i)

\* ... and its acknowledgement
DeleteResult(coll, title) == [deletedCount |-> Len(coll) - Len(DeleteOne(coll, title))]

RECURSIVE Skip(_, _)
\* cursor.skip(n)
Skip(docs, n) == IF n <= 0 \/ docs = <<>> THEN docs ELSE Skip(Tail(docs), n - 1)

RECURSIVE Limit(_, _)
\* cursor.limit(n) / { $limit: n }
Limit(docs, n) ==
  IF n <= 0 \/ docs = <<>> THEN <<>> ELSE <<Head(docs)>> \o Limit(Tail(docs), n - 1)

\* the store's order on prices: NaN sorts before every number
PriceLeq(p, q) == p.kind = "NaN" \/ (q.kind = "number" /\ p.v <= q.v)

\* the store's order on strings
StrRank(s) == CHOOSE i \in DOMAIN Collation : Collation[i] = s

Permutations(n) ==
  {p \in [1..n -> 1..n] : \A i, j \in 1..n : i # j => p[i] # p[j]}

\* cursor.sort / { $sort }: every arrangement of docs that is in order, where
\* leq[i, j] says that docs[i] may come before docs[j]; the store does not say
\* how it arranges documents that tie
Sorted(docs, leq) ==
  { [i \in DOMAIN docs |-> docs[p[i]]] : p \in
      { q \in Permutations(Len(docs)) :
          \A i, j \in DOMAIN docs : i < j => leq[q[i], q[j]] } }

\* a $group stage hands its rows on in no particular order
Arrangements(rows) ==
  { s \in [1..Cardinality(rows) -> rows] :
      \A i, j \in DOMAIN s : i # j => s[i] # s[j] }

---------------------------------------------------------------------------
(* The aggregation stages *)

RECURSIVE Gcd(_, _)
Gcd(a, b) == IF b = 0 THEN a ELSE Gcd(b, a % b)

RECURSIVE SumPrices(_)
\* sum of the prices of docs, none of which is NaN
SumPrices(docs) ==
  IF docs = <<>> THEN 0 ELSE Head(docs).price.v + SumPrices(Tail(docs))

\* mutant of Avg: the quotient truncated to a whole number
AvgTruncated(docs) ==
  IF \E i \in DOMAIN docs : docs[i].price.kind = "NaN"
  THEN [kind |-> "NaN", num |-> 0, den |-> 1]
  ELSE [kind |-> "number", num |-> SumPrices(docs) \div Len(docs), den |-> 1]

\* { $avg: "$price" } over the documents of one group: NaN once a price is NaN,
\* else the quotient sum / count, kept exact as a fraction in lowest terms
Avg(docs) ==
  IF \E i \in DOMAIN docs : docs[i].price.kind = "NaN"
  THEN [kind |-> "NaN", num |-> 0, den |-> 1]
  ELSE LET s == SumPrices(docs)
           g == Gcd(s, Len(docs))
       IN [kind |-> "number", num |-> s \div g, den |-> Len(docs) \div g]

\* { $group: { _id: "$genre", avgPrice: { $avg: "$price" } } }
GroupAvgByGenre(coll) ==
  { [_id |-> g, avgPrice |-> Avg(SelectSeq(coll, LAMBDA d : d.genre = g))] :
      g \in {coll[i].genre : i \in DOMAIN coll} }

\* { $group: { _id: "$author", count: { $sum: 1 } } }
GroupCountByAuthor(coll) ==
  { [_id |-> a, count |-> Len(SelectSeq(coll, LAMBDA d : d.author = a))] :
      a \in {coll[i].author : i \in DOMAIN coll} }

\* mutant of Decade: the year's last digit is kept and the decade dropped
DecadeAsLastDigit(year) == year % 10

\* { $subtract: ["$published_year", { $mod: ["$published_year", 10] }] }
Decade(year) == year - (year % 10)

\* { $project: { decade: ... } }
ProjectDecade(coll) == [i \in DOMAIN coll |-> [decade |-> Decade(coll[i].published_year)]]

\* { $group: { _id: "$decade", count: { $sum: 1 } } }
GroupCountByDecade(docs) ==
  { [_id |-> d, count |-> Len(SelectSeq(docs, LAMBDA x : x.decade = d))] :
      d \in {docs[i].decade : i \in DOMAIN docs} }

\* { $sort: { _id: 1 } } on string keys
SortByIdString(rows) ==
  Sorted(rows, [i, j \in DOMAIN rows |-> StrRank(rows[i]._id) <= StrRank(rows[j]._id)])

\* { $sort: { _id: 1 } } on numeric keys
SortByIdNumber(rows) ==
  Sorted(rows, [i, j \in DOMAIN rows |-> rows[i]._id <= rows[j]._id])

\* mutant of SortByCountDesc: { $sort: { count: 1 } }
SortByCountAsc(rows) ==
  Sorted(rows, [i, j \in DOMAIN rows |-> rows[i].count <= rows[j].count])

\* { $sort: { count: -1 } }
SortByCountDesc(rows) ==
  Sorted(rows, [i, j \in DOMAIN rows |-> rows[i].count >= rows[j].count])

\* sort({ price: 1 }) and sort({ price: -1 })
SortByPrice(docs, dir) ==
  Sorted(docs, [i, j \in DOMAIN docs |->
                  IF dir = 1 THEN PriceLeq(docs[i].price, docs[j].price)
                  ELSE PriceLeq(docs[j].price, docs[i].price)])

---------------------------------------------------------------------------
(* An invocation: try { checks; return await <one store request> }          *)
(*                catch (err) { console.error(...); throw err }             *)

NoResult == [kind |-> "none"]
Docs(d) == [kind |-> "docs", docs |-> d]
Ack(a) == [kind |-> "ack", ack |-> a]
IndexName(n) == [kind |-> "index", name |-> n]
\* result[0] || null
FirstOrNull(rows) == IF rows = <<>> THEN [kind |-> "null"] ELSE [kind |-> "doc", doc |-> rows[1]]

\* mutant of Rethrow: a new error is thrown in place of the one caught
RethrowAsNewError(e) == "Error"

\* throw err, in the catch block
Rethrow(e) == e

\* the store requests of one invocation: the request is awaited once, whatever
\* the store answers
Requests(call, reply) == <<call>>

\* the catch block: log, then rethrow
Catch(fn, e) ==
  /\ result' = NoResult
  /\ err' = Rethrow(e)
  /\ log' = <<[fn |-> fn, err |-> e]>>

\* an argument check threw before any store request
Reject(fn, a, e) ==
  /\ pre' = [books |-> books, indexes |-> indexes]
  /\ op' = fn
  /\ args' = a
  /\ storeCalls' = <<>>
  /\ fault' = "none"
  /\ Catch(fn, e)
  /\ UNCHANGED <<books, indexes>>

\* the store request `call` was issued and the store answered `reply`: on
\* "none" the invocation returns res and the store holds b and ix; on an error
\* the catch block runs, and the store may or may not have applied the request
Await(fn, a, call, reply, res, b, ix) ==
  /\ pre' = [books |-> books, indexes |-> indexes]
  /\ op' = fn
  /\ args' = a
  /\ storeCalls' = Requests(call, reply)
  /\ fault' = reply
  /\ IF reply = "none"
     THEN /\ result' = res
          /\ err' = "none"
          /\ log' = <<>>
          /\ books' = b
          /\ indexes' = ix
     ELSE /\ Catch(fn, reply)
          /\ books' \in {books, b}
          /\ indexes' \in {indexes, ix}

---------------------------------------------------------------------------
(* The fourteen operations *)

findByGenre ==
  \E genre \in GenreArgs, reply \in Replies :
    Await("findByGenre", [NoArgs EXCEPT !.genre = genre], "find", reply,
          Docs(ProjectAll(SelectSeq(books, LAMBDA d : d.genre = genre),
                          {"title", "author", "price"})),
          books, indexes)

findByPublicationYear ==
  \E year \in YearArgs, reply \in Replies :
    Await("findByPublicationYear", [NoArgs EXCEPT !.year = year], "find", reply,
          Docs(ProjectAll(SelectSeq(books, LAMBDA d : d.published_year > year),
                          {"title", "author", "published_year", "price"})),
          books, indexes)

findByAuthor ==
  \E author \in AuthorArgs, reply \in Replies :
    Await("findByAuthor", [NoArgs EXCEPT !.author = author], "find", reply,
          Docs(ProjectAll(SelectSeq(books, LAMBDA d : d.author = author),
                          {"title", "published_year", "price"})),
          books, indexes)

\* typeof newPrice !== 'number' || newPrice < 0
InvalidPrice(newPrice) == TypeOf(newPrice) # "number" \/ LessThan(newPrice, 0)

updatePrice ==
  \E title \in TitleArgs, newPrice \in PriceArgs :
    LET a == [NoArgs EXCEPT !.title = title, !.newPrice = newPrice]
    IN IF InvalidPrice(newPrice)
       THEN Reject("updatePrice", a, "Invalid price value")
       ELSE \E reply \in Replies :
              Await("updatePrice", a, "updateOne", reply,
                    Ack(UpdateResult(books, title, newPrice)),
                    UpdateOne(books, title, newPrice), indexes)

deleteBook ==
  \E title \in TitleArgs, reply \in Replies :
    Await("deleteBook", [NoArgs EXCEPT !.title = title], "deleteOne", reply,
          Ack(DeleteResult(books, title)), DeleteOne(books, title), indexes)

findInStockAfterYear ==
  \E year \in YearArgs, reply \in Replies :
    Await("findInStockAfterYear", [NoArgs EXCEPT !.year = year], "find", reply,
          Docs(ProjectAll(SelectSeq(books, LAMBDA d : d.in_stock /\ d.published_year > year),
                          {"title", "author", "price"})),
          books, indexes)

sortByPriceAscending ==
  \E reply \in Replies, docs \in SortByPrice(books, 1) :
    Await("sortByPriceAscending", NoArgs, "find", reply,
          Docs(ProjectAll(docs, {"title", "author", "price"})), books, indexes)

sortByPriceDescending ==
  \E reply \in Replies, docs \in SortByPrice(books, -1) :
    Await("sortByPriceDescending", NoArgs, "find", reply,
          Docs(ProjectAll(docs, {"title", "author", "price"})), books, indexes)

\* const limit = 5
PageLimit == 5

\* page = 1 in the parameter list: the default replaces undefined
PageOrDefault(page) == IF page.kind = "undefined" THEN Num(1) ELSE page

\* mutant of PageSkip: page * limit, which skips the first page
PageSkipOffByOne(page) == page.v * PageLimit

\* const skip = (page - 1) * limit
PageSkip(page) == (page.v - 1) * PageLimit

\* mutant of InvalidPage: page < 0, which lets page 0 through
InvalidPageBelowZero(page) == LessThan(page, 0)

\* page < 1
InvalidPage(page) == LessThan(page, 1)

\* find({}, { projection }).skip(skip).limit(limit).toArray()
PageDocs(coll, page) ==
  Limit(Skip(ProjectAll(coll, {"title", "author", "price"}), PageSkip(page)), PageLimit)

paginateBooks ==
  \E given \in PageArgs :
    LET a == [NoArgs EXCEPT !.page = given]
        page == PageOrDefault(given)
    IN IF InvalidPage(page)
       THEN Reject("paginateBooks", a, "Page number must be >= 1")
       ELSE \E reply \in Replies :
              Await("paginateBooks", a, "find", reply,
                    Docs(PageDocs(books, page)),
                    books, indexes)

avgPriceByGenre ==
  \E reply \in Replies,
     rows \in UNION {SortByIdString(g) : g \in Arrangements(GroupAvgByGenre(books))} :
      Await("avgPriceByGenre", NoArgs, "aggregate", reply, Docs(rows), books, indexes)

authorWithMostBooks ==
  \E reply \in Replies,
     rows \in UNION {SortByCountDesc(g) : g \in Arrangements(GroupCountByAuthor(books))} :
      Await("authorWithMostBooks", NoArgs, "aggregate", reply,
            FirstOrNull(Limit(rows, 1)), books, indexes)

booksByDecade ==
  \E reply \in Replies,
     rows \in UNION {SortByIdNumber(g) :
                       g \in Arrangements(GroupCountByDecade(ProjectDecade(books)))} :
      Await("booksByDecade", NoArgs, "aggregate", reply, Docs(rows), books, indexes)

\* mutant of CreateIndex: the other indexes are dropped
CreateIndexDropping(ixs, name) == {name}

\* createIndex(keys): the index is added unless it is there already
CreateIndex(ixs, name) == ixs \cup {name}

createTitleIndex ==
  \E reply \in Replies :
    Await("createTitleIndex", NoArgs, "createIndex", reply,
          IndexName("title_1"), books, CreateIndex(indexes, "title_1"))

createAuthorYearIndex ==
  \E reply \in Replies :
    Await("createAuthorYearIndex", NoArgs, "createIndex", reply,
          IndexName("author_1_published_year_1"), books,
          CreateIndex(indexes, "author_1_published_year_1"))

---------------------------------------------------------------------------
(* Specifications *)

\* before any call, over the seeded collection `seeded`
Start(seeded) ==
  /\ books \in seeded
  /\ indexes = {"_id_"}
  /\ pre = [books |-> books, indexes |-> indexes]
  /\ op = "none"
  /\ args = NoArgs
  /\ storeCalls = <<>>
  /\ fault = "none"
  /\ result = NoResult
  /\ err = "none"
  /\ log = <<>>

Init == Start(SeqsUpTo(Seed, MaxBooks))

Next ==
  \/ findByGenre
  \/ findByPublicationYear
  \/ findByAuthor
  \/ updatePrice
  \/ deleteBook
  \/ findInStockAfterYear
  \/ sortByPriceAscending
  \/ sortByPriceDescending
  \/ paginateBooks
  \/ avgPriceByGenre
  \/ authorWithMostBooks
  \/ booksByDecade
  \/ createTitleIndex
  \/ createAuthorYearIndex

\* every operation, in any order
Spec == Init /\ [][Next]_vars

InitWrite == Start(SeqsUpTo(WriteSeed, MaxWriteBooks))
NextWrite == updatePrice \/ deleteBook
\* the two writing operations, on longer collections
SpecWrite == InitWrite /\ [][NextWrite]_vars

InitPage == Start(SeqsUpTo(PageSeed, MaxPageBooks))
NextPage == paginateBooks \/ deleteBook
\* pagination over collections of several pages, which deleteBook shortens
SpecPage == InitPage /\ [][NextPage]_vars

InitAgg == Start(SeqsUpTo(AggSeed, MaxAggBooks))
NextAgg == avgPriceByGenre \/ authorWithMostBooks \/ booksByDecade
\* the three aggregations over every small collection
SpecAgg == InitAgg /\ [][NextAgg]_vars

---------------------------------------------------------------------------
(* Claims *)

Operations ==
  {"findByGenre", "findByPublicationYear", "findByAuthor", "updatePrice",
   "deleteBook", "findInStockAfterYear", "sortByPriceAscending",
   "sortByPriceDescending", "paginateBooks", "avgPriceByGenre",
   "authorWithMostBooks", "booksByDecade", "createTitleIndex",
   "createAuthorYearIndex"}

Min(a, b) == IF a < b THEN a ELSE b

\* the invocation left the store as it found it
StoreUnchanged == books = pre.books /\ indexes = pre.indexes

\* a price that is a non-negative number
NonNegativeNumber(p) == p.kind = "number" /\ p.v >= 0

\* an argument that is negative, or is not a number at all
NegativeOrNotANumber(x) == x.kind # "number" \/ x.v < 0

\* C1: updatePrice with a newPrice that is negative or not a number throws the
\* validation error, issues no store request and leaves the collection as it
\* was.  (Violated: NaN passes the check of line 43 and is written.)
C1_RejectsBadPrice ==
  (op = "updatePrice" /\ NegativeOrNotANumber(args.newPrice)) =>
    /\ err = "Invalid price value"
    /\ result.kind = "none"
    /\ storeCalls = <<>>
    /\ StoreUnchanged

\* the part of C1 that holds: a price that is a negative number, a string or
\* undefined is rejected before any store request
C1_RejectsNegativeAndNonNumeric ==
  (op = "updatePrice" /\ NegativeOrNotANumber(args.newPrice) /\ args.newPrice # NaN) =>
    /\ err = "Invalid price value"
    /\ storeCalls = <<>>
    /\ StoreUnchanged

C1_NaNWritten ==
  /\ op = "updatePrice"
  /\ args.newPrice = NaN
  /\ err = "none"
  /\ storeCalls = <<"updateOne">>
  /\ books # pre.books

\* C2: paginateBooks with page < 1 (0 and negative pages included) throws the
\* validation error before any store request is issued.
C2_RejectsPageBelowOne ==
  (op = "paginateBooks" /\ args.page.kind = "number" /\ args.page.v < 1) =>
    /\ err = "Page number must be >= 1"
    /\ result.kind = "none"
    /\ storeCalls = <<>>
    /\ fault = "none"
    /\ StoreUnchanged

C2_Witness ==
  /\ op = "paginateBooks"
  /\ args.page = Num(0)
  /\ Len(books) > PageLimit
  /\ err = "Page number must be >= 1"

\* the page number an invocation worked with: 1 when none was given
PageOf(a) == IF a.page.kind = "undefined" THEN 1 ELSE a.page.v

\* the records at positions from..to of coll (counted from 1), as projected
Positions(coll, from, to) ==
  [i \in 1..(IF to < from THEN 0 ELSE to - from + 1) |->
     [title |-> coll[from + i - 1].title,
      author |-> coll[from + i - 1].author,
      price |-> coll[from + i - 1].price]]

RECURSIVE PagesUpTo(_, _)
\* pages 1..k of coll, one after the other
PagesUpTo(coll, k) ==
  IF k = 0 THEN <<>> ELSE PagesUpTo(coll, k - 1) \o PageDocs(coll, Num(k))

\* C3: for an integer page >= 1 (1 when omitted) paginateBooks returns at most
\* 5 records, those at positions (page-1)*5 .. page*5-1 (counted from 0) of the
\* store's order; on an unchanged collection pages 1..k, one after the other,
\* are the first 5*k records, none skipped and none repeated.
C3_PageIsItsSlice ==
  /\ (op = "paginateBooks" /\ err = "none") =>
       LET p == PageOf(args)
           n == Len(pre.books)
       IN /\ p >= 1
          /\ result.kind = "docs"
          /\ Len(result.docs) <= 5
          /\ result.docs = Positions(pre.books, (p - 1) * 5 + 1, Min(n, p * 5))
  /\ \A k \in 1..MaxPage :
       PagesUpTo(books, k) = Positions(books, 1, Min(Len(books), 5 * k))

C3_Witness ==
  /\ op = "paginateBooks"
  /\ err = "none"
  /\ args.page = Num(2)
  /\ Len(pre.books) = 8
  /\ Len(result.docs) = 3
  /\ result.docs[1].title # result.docs[2].title

\* the twelve operations other than updatePrice and deleteBook
ReadOperations == Operations \ {"updatePrice", "deleteBook"}
IndexOperations == {"createTitleIndex", "createAuthorYearIndex"}

\* C4: any invocation of the twelve operations other than updatePrice and
\* deleteBook leaves the store's state unchanged.  (Violated: the two
\* createIndex operations add an index to the store.)
C4_TwelveLeaveStoreUnchanged ==
  op \in ReadOperations => StoreUnchanged

\* C4 as amended: the ten find / sort / paginate / aggregate operations leave
\* the store unchanged; createTitleIndex and createAuthorYearIndex leave the
\* records unchanged and add their own index, and nothing else, to the indexes.
C4_ReadsUnchangedIndexesAdded ==
  /\ op \in ReadOperations \ IndexOperations => StoreUnchanged
  /\ op \in IndexOperations =>
       LET name == IF op = "createTitleIndex" THEN "title_1"
                   ELSE "author_1_published_year_1"
       IN /\ books = pre.books
          /\ indexes \in {pre.indexes, pre.indexes \cup {name}}
          /\ err = "none" => /\ indexes = pre.indexes \cup {name}
                             /\ result.kind = "index"
                             /\ result.name = name

C4_Witness ==
  /\ op = "createAuthorYearIndex"
  /\ err = "none"
  /\ books # <<>>
  /\ "title_1" \in pre.indexes
  /\ "author_1_published_year_1" \notin pre.indexes
  /\ "author_1_published_year_1" \in indexes

\* positions of the records of coll with this title
WithTitle(coll, title) == {i \in DOMAIN coll : coll[i].title = title}

\* C5: deleteBook for a title no record has returns deletedCount 0, does not
\* fail and leaves the collection unchanged; for a title that is present it
\* removes one record only (deletedCount 1), however many records share it.
C5_DeleteAtMostOne ==
  (op = "deleteBook" /\ fault = "none") =>
    LET had == Cardinality(WithTitle(pre.books, args.title))
    IN /\ err = "none"
       /\ result.kind = "ack"
       /\ had = 0 => /\ result.ack.deletedCount = 0
                     /\ StoreUnchanged
       /\ had > 0 => /\ result.ack.deletedCount = 1
                     /\ Len(books) = Len(pre.books) - 1
                     /\ Cardinality(WithTitle(books, args.title)) = had - 1
                     /\ SelectSeq(books, LAMBDA d : d.title # args.title)
                          = SelectSeq(pre.books, LAMBDA d : d.title # args.title)
                     /\ indexes = pre.indexes

C5_Witness ==
  /\ op = "deleteBook"
  /\ fault = "none"
  /\ args.title = "Dune"
  /\ Len(pre.books) = 3
  /\ result.kind = "ack"
  /\ result.ack.deletedCount = 0

\* deleteBook acted on a title that two records share
C5_SharedTitleReached ==
  /\ op = "deleteBook"
  /\ fault = "none"
  /\ Cardinality(WithTitle(pre.books, args.title)) = 2
  /\ Cardinality(WithTitle(books, args.title)) = 1

\* C6: when the store request of an operation fails, the operation throws that
\* same error value and returns nothing; no operation retries, so an invocation
\* issues at most one store request.
C6_StoreErrorRethrown ==
  /\ op \in Operations \cup {"none"}
  /\ fault # "none" => /\ op \in Operations
                       /\ err = fault
                       /\ result.kind = "none"
                       /\ Len(storeCalls) = 1
  /\ Len(storeCalls) <= 1
  /\ err = "none" => result.kind # "none" \/ op = "none"

C6_Witness ==
  /\ op = "authorWithMostBooks"
  /\ fault = "MongoServerError"
  /\ err = "MongoServerError"
  /\ storeCalls = <<"aggregate">>

\* every operation has had its store request fail; instantiated per operation
C6_FailedIn(o) == op = o /\ fault \in StoreErrors /\ err = fault

\* number of records of coll by this author
ByAuthor(coll, author) == Cardinality({i \in DOMAIN coll : coll[i].author = author})

\* C7: authorWithMostBooks returns null on an empty collection; otherwise one
\* row (the author in _id) whose count is that author's number of records, and
\* no author has more.
C7_AuthorWithMostBooks ==
  (op = "authorWithMostBooks" /\ fault = "none") =>
    /\ err = "none"
    /\ pre.books = <<>> => result.kind = "null"
    /\ pre.books # <<>> =>
         /\ result.kind = "doc"
         /\ \E i \in DOMAIN pre.books : pre.books[i].author = result.doc._id
         /\ result.doc.count = ByAuthor(pre.books, result.doc._id)
         /\ \A i \in DOMAIN pre.books :
              ByAuthor(pre.books, pre.books[i].author) <= result.doc.count

C7_Witness ==
  /\ op = "authorWithMostBooks"
  /\ fault = "none"
  /\ result.kind = "doc"
  /\ result.doc._id = "Frank Herbert"
  /\ result.doc.count = 2
  /\ ByAuthor(pre.books, "George Orwell") = 1

\* the empty collection answers null
C7_NullReached ==
  op = "authorWithMostBooks" /\ fault = "none" /\ pre.books = <<>> /\ result.kind = "null"

RECURSIVE SumCounts(_)
SumCounts(rows) == IF rows = <<>> THEN 0 ELSE Head(rows).count + SumCounts(Tail(rows))

\* C8: booksByDecade returns one row per decade present (the decade in _id),
\* where a year's decade is the year minus its last digit (1984 is in 1980),
\* in ascending order of decade; a row's count is the number of records of
\* that decade, and the counts add up to the size of the collection.
C8_BooksByDecade ==
  (op = "booksByDecade" /\ fault = "none") =>
    LET rows == result.docs
        years == [i \in DOMAIN pre.books |-> pre.books[i].published_year]
        InDecade(y, d) == d % 10 = 0 /\ d <= y /\ y < d + 10
    IN /\ err = "none"
       /\ result.kind = "docs"
       /\ \A i \in DOMAIN years : \E r \in DOMAIN rows : InDecade(years[i], rows[r]._id)
       /\ \A r \in DOMAIN rows :
            /\ \E i \in DOMAIN years : InDecade(years[i], rows[r]._id)
            /\ rows[r].count =
                 Cardinality({i \in DOMAIN years : InDecade(years[i], rows[r]._id)})
       /\ \A q, r \in DOMAIN rows : q < r => rows[q]._id < rows[r]._id
       /\ SumCounts(rows) = Len(pre.books)
       /\ \A i \in DOMAIN years :
            years[i] = 1984 => \E r \in DOMAIN rows : rows[r]._id = 1980

C8_Witness ==
  /\ op = "booksByDecade"
  /\ fault = "none"
  /\ result.kind = "docs"
  /\ Len(pre.books) = 3
  /\ result.docs = <<[_id |-> 1980, count |-> 2], [_id |-> 1990, count |-> 1]>>
  /\ \E i \in DOMAIN pre.books : pre.books[i].published_year = 1984
  /\ \E i \in DOMAIN pre.books : pre.books[i].published_year = 1989

RECURSIVE SumOver(_, _)
\* sum of the prices of coll at the positions in S
SumOver(coll, S) ==
  IF S = {} THEN 0
  ELSE LET i == CHOOSE x \in S : TRUE
       IN coll[i].price.v + SumOver(coll, S \ {i})

\* C9: avgPriceByGenre returns one row per genre present (the genre in _id), in
\* ascending order of genre; avgPrice is the mean of the prices of the genre:
\* avgPrice times the number of records is the sum of their prices (and the
\* mean is NaN exactly when one of the prices is).
C9_AvgPriceByGenre ==
  (op = "avgPriceByGenre" /\ fault = "none") =>
    LET rows == result.docs
        Of(g) == {i \in DOMAIN pre.books : pre.books[i].genre = g}
    IN /\ err = "none"
       /\ result.kind = "docs"
       /\ \A i \in DOMAIN pre.books : \E r \in DOMAIN rows : rows[r]._id = pre.books[i].genre
       /\ \A q, r \in DOMAIN rows : q < r => StrRank(rows[q]._id) < StrRank(rows[r]._id)
       /\ \A r \in DOMAIN rows :
            LET S == Of(rows[r]._id)
                avg == rows[r].avgPrice
            IN /\ S # {}
               /\ IF \E i \in S : pre.books[i].price.kind = "NaN"
                  THEN avg.kind = "NaN"
                  ELSE /\ avg.kind = "number"
                       /\ avg.den > 0
                       /\ avg.num * Cardinality(S) = SumOver(pre.books, S) * avg.den

C9_Witness ==
  /\ op = "avgPriceByGenre"
  /\ fault = "none"
  /\ result.kind = "docs"
  /\ Len(pre.books) = 3
  /\ Len(result.docs) = 2
  /\ result.docs[1]._id = "Fiction"
  /\ result.docs[1].avgPrice = [kind |-> "number", num |-> 1399, den |-> 2]
  /\ result.docs[2]._id = "Sci-Fi"

\* C10: every record's price stays a non-negative number under every sequence
\* of the fourteen operations, and a successful updatePrice(title, p) sets the
\* price of at most one record with that title to p and changes nothing else.
\* (Violated: updatePrice(title, NaN) passes the check of line 43, see C1, and
\* the record's price becomes NaN.)
C10_PricesStayNonNegative ==
  /\ \A i \in DOMAIN books : NonNegativeNumber(books[i].price)
  /\ (op = "updatePrice" /\ err = "none") =>
       /\ Len(books) = Len(pre.books)
       /\ indexes = pre.indexes
       /\ \A i \in DOMAIN books :
            \/ books[i] = pre.books[i]
            \/ /\ books[i] = [pre.books[i] EXCEPT !.price = args.newPrice]
               /\ books[i].title = args.title
               /\ \A j \in DOMAIN books : j # i => books[j] = pre.books[j]

\* the part of C10 that holds: what a successful updatePrice changes
C10_UpdateChangesOnePrice ==
  (op = "updatePrice" /\ err = "none") =>
    /\ Len(books) = Len(pre.books)
    /\ indexes = pre.indexes
    /\ \A i \in DOMAIN books :
         \/ books[i] = pre.books[i]
         \/ /\ books[i] = [pre.books[i] EXCEPT !.price = args.newPrice]
            /\ books[i].title = args.title
            /\ \A j \in DOMAIN books : j # i => books[j] = pre.books[j]

=============================================================================
